---- MODULE Spec2Model ----
(***************************************************************************)
(* The users/notes GraphQL walkthrough: the resolver layer over the        *)
(* in-memory mock store (main-4.go, main-5.go), the same resolvers over    *)
(* Postgres (main-6, src/unnamed/part_001 with the tables of               *)
(* src/unnamed/part_003) and the HTTP endpoint (main-7,                    *)
(* src/unnamed/part_000).                                                  *)
(*                                                                         *)
(* A Go result (value, error) is the record [val, null, err]: val is the   *)
(* sequence of entities the result carries (one element for a pointer or   *)
(* struct result, none for a nil pointer), null tells whether the returned *)
(* pointer or slice is nil, err is the error ("nil" for no error).         *)
(***************************************************************************)
EXTENDS Integers, Sequences, FiniteSets, TLC

VARIABLES
    variant,    \* which program runs: "main4", "main5", "main6" or "main7"; "pair"
                \* is main-5 and main-6 side by side, "conc" is main-5 called
                \* by concurrent requests
    users,      \* main-4/main-5: the package-level mock slice `users`
    dbUsers,    \* main-6: rows of table users
    dbNotes,    \* main-6: rows of table notes
    call,       \* the last resolver call: its arguments and what it returned
    created,    \* the createNote calls that returned a Note so far, in call order
    req,        \* main-7: the request being handled and the handler's position
    resp,       \* main-7: what Schema.Exec returned
    w,          \* main-7: the http.ResponseWriter (status, body)
    logged,     \* main-7: what went to the server log
    workers,    \* the goroutines that run CreateNote of main-5 on behalf of
                \* concurrent requests, each with its position in the method
    demo        \* main-7: the positions of main and of the client goroutine

storeVars == <<variant, users, dbUsers, dbNotes, call, created>>
httpVars == <<req, resp, w, logged>>
procVars == <<workers, demo>>
vars == <<variant, users, dbUsers, dbNotes, call, created, req, resp, w, logged, workers, demo>>

----------------------------------------------------------------------------
(* Bounds *)

\* createNote calls that add a Note, per run
MaxCreate == 2

\* how many notes the paired backends create
MaxPairCreate == 1

\* requests the endpoint serves, per run
MaxRequests == 2

\* errors one Schema.Exec response carries
MaxErrors == 2

----------------------------------------------------------------------------
(* Errors *)

NoErr == "nil"
ErrNoRows == "sql: no rows in result set"
ErrStore == "store error"
ErrForeignKey == "violates foreign key constraint"
ErrUnique == "violates unique constraint"

Result(val, null, err) == [val |-> val, null |-> null, err |-> err]

----------------------------------------------------------------------------
(* The in-memory store of main-4.go and main-5.go *)

MockUsers ==
    << [UserID |-> "u-001", Username |-> "nyxerys", Emoji |-> "PT",
        Notes |-> << [NoteID |-> "n-001", Data |-> "Ola Mundo!"],
                     [NoteID |-> "n-002", Data |-> "Ola novamente, mundo!"],
                     [NoteID |-> "n-003", Data |-> "Ola, escuridao!"] >>],
       [UserID |-> "u-002", Username |-> "rdnkta", Emoji |-> "UA",
        Notes |-> << [NoteID |-> "n-004", Data |-> "Pryvit Svit!"],
                     [NoteID |-> "n-005", Data |-> "Pryvit shche raz, svit!"],
                     [NoteID |-> "n-006", Data |-> "Pryvit, temriava!"] >>],
       [UserID |-> "u-003", Username |-> "username_ZAYDEK", Emoji |-> "US",
        Notes |-> << [NoteID |-> "n-007", Data |-> "Hello, world!"],
                     [NoteID |-> "n-008", Data |-> "Hello again, world!"],
                     [NoteID |-> "n-009", Data |-> "Hello, darkness!"] >>] >>

\* Go's User{}: what main-4 returns for a miss
ZeroUser == [UserID |-> "", Username |-> "", Emoji |-> "", Notes |-> <<>>]

\* the indexes of the users a `for _, user := range users` loop matches
Matching(us, userID) == {i \in DOMAIN us : us[i].UserID = userID}

First(S) == CHOOSE i \in S : \A j \in S : i <= j

\* RootResolver.Users of main-5 (main-4 returns the slice itself)
MemUsers(us) == Result(us, Len(us) = 0, NoErr)

\* Main5User returning the first user of the slice whenever one matches
Main5UserFirstOfSlice(us, userID) ==
    IF Matching(us, userID) # {}
    THEN Result(<<us[1]>>, FALSE, NoErr)
    ELSE Result(<<>>, TRUE, NoErr)

\* RootResolver.User of main-5: nil, nil on a miss
Main5User(us, userID) ==
    IF Matching(us, userID) # {}
    THEN Result(<<us[First(Matching(us, userID))]>>, FALSE, NoErr)
    ELSE Result(<<>>, TRUE, NoErr)

\* RootResolver.User of main-4: User{}, nil on a miss
Main4User(us, userID) ==
    IF Matching(us, userID) # {}
    THEN Result(<<us[First(Matching(us, userID))]>>, FALSE, NoErr)
    ELSE Result(<<ZeroUser>>, FALSE, NoErr)

\* UserResolver.Notes of main-5: a nil slice when the user has no notes
Main5UserNotes(u) == Result(u.Notes, Len(u.Notes) = 0, NoErr)

\* Main5Notes answering a miss with an error
Main5NotesNotFound(us, userID) ==
    LET user == Main5User(us, userID)
    IN  IF user.null \/ user.err # NoErr
        THEN Result(<<>>, TRUE, "not found")
        ELSE Main5UserNotes(user.val[1])

\* RootResolver.Notes of main-5
Main5Notes(us, userID) ==
    LET user == Main5User(us, userID)
    IN  IF user.null \/ user.err # NoErr
        THEN Result(<<>>, TRUE, user.err)
        ELSE Main5UserNotes(user.val[1])

\* RootResolver.Notes of main-4: reflect.ValueOf(user).IsZero() is the miss
Main4Notes(us, userID) ==
    LET user == Main4User(us, userID)
    IN  IF user.val[1] = ZeroUser \/ user.err # NoErr
        THEN Result(<<>>, TRUE, user.err)
        ELSE Result(user.val[1].Notes, Len(user.val[1].Notes) = 0, NoErr)

\* the notes of all users, in the order of the two nested range loops
RECURSIVE AllNotes(_)
AllNotes(us) ==
    IF us = <<>> THEN <<>> ELSE Head(us).Notes \o AllNotes(Tail(us))

\* RootResolver.Note of main-4 and main-5: the first match of the scan
MemNote(us, noteID, zero) ==
    LET all == AllNotes(us)
        hits == {i \in DOMAIN all : all[i].NoteID = noteID}
    IN  IF hits # {}
        THEN Result(<<all[First(hits)]>>, FALSE, NoErr)
        ELSE IF zero THEN Result(<<[NoteID |-> "", Data |-> ""]>>, FALSE, NoErr)
                     ELSE Result(<<>>, TRUE, NoErr)

\* the NoteID main-5's CreateNote gives every note it creates
Main5NewNoteID == "n-010"

\* Main5CreateNoteStore appending to a copy of the user (ranging over values,
\* as main-4's []User would): the store keeps nothing
Main5CreateNoteStoreCopy(us, userID, data) == us

\* RootResolver.CreateNote of main-5, the store it leaves
Main5CreateNoteStore(us, userID, data) ==
    [i \in DOMAIN us |->
        IF us[i].UserID = userID
        THEN [us[i] EXCEPT !.Notes = Append(@, [NoteID |-> Main5NewNoteID, Data |-> data])]
        ELSE us[i]]

\* RootResolver.CreateNote of main-5, what it returns: &NoteResolver{note}, nil
\* where note stays nil when no user matched
Main5CreateNoteResult(us, userID, data) ==
    IF Matching(us, userID) # {}
    THEN Result(<<[NoteID |-> Main5NewNoteID, Data |-> data]>>, FALSE, NoErr)
    ELSE Result(<<>>, FALSE, NoErr)

----------------------------------------------------------------------------
(* The Postgres store of main-6: tables users and notes *)

\* insert into users ...: the rows the migration script leaves
SeedUsers ==
    { [user_id |-> "u-f4ff7e", username |-> "nyxerys"],
      [user_id |-> "u-260753", username |-> "rdnkta"],
      [user_id |-> "u-33e723", username |-> "zaydek"] }

\* insert into notes ...: the rows the migration script leaves
SeedNotes ==
    { [user_id |-> "u-f4ff7e", note_id |-> "n-b2c043", data |-> "Ola Mundo!"],
      [user_id |-> "u-f4ff7e", note_id |-> "n-95d818", data |-> "Ola novamente, mundo!"],
      [user_id |-> "u-f4ff7e", note_id |-> "n-80a459", data |-> "Ola, escuridao!"],
      [user_id |-> "u-260753", note_id |-> "n-5f06d0", data |-> "Pryvit Svit!"],
      [user_id |-> "u-260753", note_id |-> "n-1c4bbe", data |-> "Pryvit shche raz, svit!"],
      [user_id |-> "u-260753", note_id |-> "n-453ff5", data |-> "Pryvit, temriava!"],
      [user_id |-> "u-33e723", note_id |-> "n-81e59b", data |-> "Hello, world!"],
      [user_id |-> "u-33e723", note_id |-> "n-b8b326", data |-> "Hello again, world!"],
      [user_id |-> "u-33e723", note_id |-> "n-7fdd0c", data |-> "Hello, darkness!"] }

\* a user row added to the database after the migration: it owns no notes
LateUser == [user_id |-> "u-a1bbe1", username |-> "johan"]

\* the values 'n-' || substr(gen_random_uuid()::text, 1, 6) can take: the
\* ones the migration used (a collision) and MaxCreate others
NoteIDDefaults ==
    {r.note_id : r \in SeedNotes} \cup {"n-00000" \o ToString(i) : i \in 1..MaxCreate}

\* all orders in which a SELECT without ORDER BY may return the rows S
RECURSIVE RowOrders(_)
RowOrders(S) ==
    IF S = {} THEN {<<>>} ELSE UNION {{<<r>> \o o : o \in RowOrders(S \ {r})} : r \in S}

\* rows.Scan(&user.UserID, &user.Username) into &User{}
ScanUser(row) == [UserID |-> row.user_id, Username |-> row.username, Notes |-> <<>>]

\* rows.Scan(&note.NoteID, &note.Data) into &Note{}
ScanNote(row) == [NoteID |-> row.note_id, Data |-> row.data]

\* RootResolver.Users of main-6: every outcome of the query
Main6Users(tUsers) ==
    {Result(<<>>, TRUE, ErrStore)} \cup
    {Result([i \in DOMAIN f |-> ScanUser(f[i])], tUsers = {}, NoErr) : f \in RowOrders(tUsers)}

\* RootResolver.User of main-6: QueryRow(...).Scan gives sql.ErrNoRows on a miss
Main6User(tUsers, userID) ==
    LET rows == {r \in tUsers : r.user_id = userID}
    IN  {Result(<<>>, TRUE, ErrStore)} \cup
        IF rows = {}
        THEN {Result(<<>>, TRUE, ErrNoRows)}
        ELSE {Result(<<ScanUser(r)>>, FALSE, NoErr) : r \in rows}

\* RootResolver.Notes of main-6: SELECT ... FROM notes WHERE user_id = $1
Main6Notes(tNotes, userID) ==
    LET rows == {r \in tNotes : r.user_id = userID}
    IN  {Result(<<>>, TRUE, ErrStore)} \cup
        {Result([i \in DOMAIN f |-> ScanNote(f[i])], rows = {}, NoErr) : f \in RowOrders(rows)}

\* Main6UserNotes with a lookup of its own that stops at the first row
Main6UserNotesFirstRow(tNotes, u) ==
    LET rows == {r \in tNotes : r.user_id = u.UserID}
    IN  {Result(<<>>, TRUE, ErrStore)} \cup
        IF rows = {} THEN {Result(<<>>, TRUE, NoErr)}
        ELSE {Result(<<ScanNote(r)>>, FALSE, NoErr) : r \in rows}

\* UserResolver.Notes of main-6: rootRx.Notes(struct{...}{UserID: r.u.UserID})
Main6UserNotes(tNotes, u) == Main6Notes(tNotes, u.UserID)

\* RootResolver.Note of main-6
Main6Note(tNotes, noteID) ==
    LET rows == {r \in tNotes : r.note_id = noteID}
    IN  {Result(<<>>, TRUE, ErrStore)} \cup
        IF rows = {}
        THEN {Result(<<>>, TRUE, ErrNoRows)}
        ELSE {Result(<<ScanNote(r)>>, FALSE, NoErr) : r \in rows}

\* InsertNoteErr for a table notes whose user_id lacks `references users`
InsertNoteErrNoForeignKey(tUsers, tNotes, userID, noteID) ==
    IF \E n \in tNotes : n.note_id = noteID THEN ErrUnique ELSE NoErr

\* INSERT INTO notes (user_id, data) VALUES ($1, $2) RETURNING note_id, with
\* note_id drawn by the column default: the error the constraints of table
\* notes raise, or nil
InsertNoteErr(tUsers, tNotes, userID, noteID) ==
    IF \E n \in tNotes : n.note_id = noteID THEN ErrUnique
    ELSE IF \A u \in tUsers : u.user_id # userID THEN ErrForeignKey
    ELSE NoErr

\* RootResolver.CreateNote of main-6: every outcome [notes, res, tx] of one
\* call, notes being the table afterwards and tx the end of the transaction
Main6CreateNote(tUsers, tNotes, userID, data) ==
    LET row(noteID) == [user_id |-> userID, note_id |-> noteID, data |-> data]
        Failed(err, tx) == [notes |-> tNotes, res |-> Result(<<>>, TRUE, err), tx |-> tx]
    IN  \* DB.Begin() fails
        {Failed(ErrStore, "none")}
        \* the INSERT or its Scan fails: the deferred tx.Rollback() undoes it
        \cup {Failed(ErrStore, "rolledback")}
        \cup {Failed(InsertNoteErr(tUsers, tNotes, userID, id), "rolledback") :
                id \in {i \in NoteIDDefaults : InsertNoteErr(tUsers, tNotes, userID, i) # NoErr}}
        \* tx.Commit() fails
        \cup {Failed(ErrStore, "rolledback") :
                id \in {i \in NoteIDDefaults : InsertNoteErr(tUsers, tNotes, userID, i) = NoErr}}
        \* committed; then r.Note(noteID) reads the row back outside the transaction
        \cup UNION {
               {[notes |-> tNotes \cup {row(id)}, res |-> r, tx |-> "committed"] :
                    r \in Main6Note(tNotes \cup {row(id)}, id)} :
               id \in {i \in NoteIDDefaults : InsertNoteErr(tUsers, tNotes, userID, i) = NoErr}}

----------------------------------------------------------------------------
(* The HTTP endpoint of main-7: responders and net/http's ResponseWriter *)

StatusCodeOK == 200
StatusCodeNotFound == 404
StatusCodeServerError == 500

\* var Statuses
Statuses(statusCode) ==
    CASE statusCode = StatusCodeOK -> "OK"
      [] statusCode = StatusCodeNotFound -> "Not Found"
      [] statusCode = StatusCodeServerError -> "Server Error"

\* one Write to the response body: plain text, or the JSON of a response
\* envelope (hasData, hasErrors: the fields omitempty keeps)
TextChunk(text) ==
    [text |-> text, json |-> FALSE, hasData |-> FALSE, data |-> "", hasErrors |-> FALSE, errors |-> <<>>]

\* a fresh http.ResponseWriter: no header written (status 0), empty body;
\* headers counts the WriteHeader calls, explicit and implicit
NewResponseWriter == [status |-> 0, body |-> <<>>, headers |-> 0]

\* w.WriteHeader(statusCode): only the first call sets the status
WriteHeader(rw, statusCode) ==
    [rw EXCEPT !.status = IF rw.headers = 0 THEN statusCode ELSE @, !.headers = @ + 1]

\* w.Write(chunk): writes the header with 200 if none was written
Write(rw, chunk) ==
    LET h == IF rw.headers = 0 THEN WriteHeader(rw, StatusCodeOK) ELSE rw
    IN  [h EXCEPT !.body = Append(@, chunk)]

\* http.Error(w, status, statusCode): the header, then the text and a newline
HttpError(rw, status, statusCode) ==
    Write(WriteHeader(rw, statusCode), TextChunk(status \o "\n"))

\* Respond calling w.WriteHeader(statusCode) before the branch, so that
\* http.Error writes the header a second time
RespondHeaderFirst(rw, statusCode) ==
    IF statusCode >= 200 /\ statusCode <= 299
    THEN WriteHeader(rw, statusCode)
    ELSE HttpError(WriteHeader(rw, statusCode), Statuses(statusCode), statusCode)

\* the responder NewResponder(statusCode) returns, applied to w
Respond(rw, statusCode) ==
    IF statusCode >= 200 /\ statusCode <= 299
    THEN WriteHeader(rw, statusCode)
    ELSE HttpError(rw, Statuses(statusCode), statusCode)

\* the error texts of the executor: internal detail
ErrorDetails == {"syntax error: unexpected \"}\"", "Cannot query field \"bogus\" on type \"Query\"."}

RECURSIVE SeqsUpTo(_, _)
SeqsUpTo(S, n) ==
    IF n = 0 THEN {<<>>}
    ELSE SeqsUpTo(S, n - 1) \cup {Append(q, x) : q \in SeqsUpTo(S, n - 1), x \in S}

GreetData == "{\"greet\":\"Hello, world!\"}"

NoResponse == [Data |-> "", Errors |-> <<>>]

\* what Schema.Exec returns for `{ greet }` on the schema of main-7, whose
\* resolver Greet returns "Hello, world!", nil
GreetResponse == [Data |-> GreetData, Errors |-> <<>>]

\* Schema.Exec(ctx, query, "", nil) of the external executor: a response
\* envelope with or without data and with any list of errors. In the demo
\* program the client's query runs on the schema of main-7 itself.
ExecOutcomes(query) ==
    IF variant = "demo" /\ query = "{ greet }"
    THEN {GreetResponse}
    ELSE {[Data |-> d, Errors |-> e] : d \in {"", GreetData}, e \in SeqsUpTo(ErrorDetails, MaxErrors)}

\* whether json.MarshalIndent(resp, "", "\t") returns nil: it does for the
\* response of `{ greet }`, whose Data is the JSON the executor built
MarshalSucceeds(r) ==
    IF variant = "demo" /\ r = GreetResponse THEN {TRUE} ELSE BOOLEAN

\* json.MarshalIndent(resp, "", "\t") of graphql.Response: both fields omitempty
MarshalIndent(r) ==
    [text |-> "", json |-> TRUE, hasData |-> r.Data # "", data |-> r.Data,
     hasErrors |-> r.Errors # <<>>, errors |-> r.Errors]

\* the handler is called with a fresh ResponseWriter and the request
HandlerCalled(method, query) ==
    /\ req.phase \in {"Idle", "ResponseWritten"}
    /\ req.n < MaxRequests
    /\ req' = [n |-> req.n + 1, phase |-> "Received", method |-> method, query |-> query,
               param |-> "", execs |-> 0]
    /\ resp' = NoResponse
    /\ w' = NewResponseWriter
    /\ UNCHANGED logged
    /\ UNCHANGED storeVars

\* the net/http server hands a request to the handler
Receive(method, query) ==
    /\ HandlerCalled(method, query)
    /\ UNCHANGED procVars

\* MethodRejected turning away POST only
MethodRejectedPostOnly(method) == method = "POST"

\* r.Method != http.MethodGet
MethodRejected(method) == method # "GET"

\* if r.Method != http.MethodGet { RespondNotFound(w); return }
MethodCheck ==
    /\ req.phase = "Received"
    /\ IF MethodRejected(req.method)
       THEN /\ w' = Respond(w, StatusCodeNotFound)
            /\ req' = [req EXCEPT !.phase = "ResponseWritten"]
       ELSE /\ req' = [req EXCEPT !.phase = "MethodChecked"]
            /\ UNCHANGED w
    /\ UNCHANGED <<resp, logged>>
    /\ UNCHANGED <<storeVars, procVars>>

\* params := r.URL.Query(); params.Get("query")
QueryExtract ==
    /\ req.phase = "MethodChecked"
    /\ req' = [req EXCEPT !.phase = "QueryExtracted", !.param = req.query]
    /\ UNCHANGED <<resp, w, logged>>
    /\ UNCHANGED <<storeVars, procVars>>

\* resp := Schema.Exec(context.Background(), params.Get("query"), "", nil)
Execute ==
    /\ req.phase = "QueryExtracted"
    /\ resp' \in ExecOutcomes(req.param)
    /\ req' = [req EXCEPT !.phase = "Executed", !.execs = @ + 1]
    /\ UNCHANGED <<w, logged>>
    /\ UNCHANGED <<storeVars, procVars>>

\* ExecFailed letting a response that carries data through
ExecFailedNoData(r) == Len(r.Errors) > 0 /\ r.Data = ""

\* if len(resp.Errors) > 0
ExecFailed(r) == Len(r.Errors) > 0

\* RespondExecErrors sending the first error's text as the body
RespondExecErrorsEcho(rw, r) == HttpError(rw, r.Errors[1], StatusCodeServerError)

\* RespondServerError(w) for the errors of r: only the status text is sent
RespondExecErrors(rw, r) == Respond(rw, StatusCodeServerError)

\* the rest of the handler: the 500 for errors, or the JSON body
WriteResponse ==
    /\ req.phase = "Executed"
    /\ req' = [req EXCEPT !.phase = "ResponseWritten"]
    /\ IF ExecFailed(resp)
       THEN /\ w' = RespondExecErrors(w, resp)
            /\ logged' = Append(logged, [source |-> "Schema.Exec", detail |-> resp.Errors])
       ELSE \E marshalled \in MarshalSucceeds(resp) :
              IF ~marshalled
              THEN /\ w' = Respond(w, StatusCodeServerError)
                   /\ logged' = Append(logged, [source |-> "json.MarshalIndent", detail |-> <<"json: error">>])
              ELSE /\ w' = Write(w, MarshalIndent(resp))
                   /\ UNCHANGED logged
    /\ UNCHANGED resp
    /\ UNCHANGED <<storeVars, procVars>>

Methods == {"GET", "POST", "DELETE"}

Queries == {"{ greet }", "{ bogus }", ""}

NextHTTP ==
    \/ \E method \in Methods, query \in Queries : Receive(method, query)
    \/ MethodCheck
    \/ QueryExtract
    \/ Execute
    \/ WriteResponse

----------------------------------------------------------------------------
(* The resolver calls a client makes, one action per root resolver *)

\* the arguments the calls are tried with: present and absent identifiers
UserIDArgs ==
    IF variant = "main6"
    THEN {"u-33e723", "u-a1bbe1", "u-999999"}
    ELSE {"u-001", "u-003", "u-999"}

\* createNote is tried on the user that starts without notes (absent from the
\* database the migration leaves) and on an absent one: the orders in which
\* a user's rows can come back stay few
CreateUserIDArgs ==
    IF variant = "main6" THEN {"u-a1bbe1", "u-999999"} ELSE UserIDArgs

NoteIDArgs ==
    IF variant = "main6"
    THEN {"n-b2c043", "n-000001", "n-999999"}
    ELSE {"n-001", "n-010", "n-999"}

DataArgs == {"hi", "We created a note!"}

\* QueriedTables with Users and User loading the notes of what they return
QueriedTablesEager(op, tx) ==
    CASE op \in {"Users", "User"} -> <<"users", "notes">>
      [] op \in {"Notes", "Note", "UserNotes"} -> <<"notes">>
      [] op = "CreateNote" /\ tx = "rolledback" -> <<"notes">>
      [] op = "CreateNote" /\ tx = "committed" -> <<"notes", "notes">>
      [] OTHER -> <<>>

\* the tables the SQL statements of a main-6 resolver call name, in the order
\* the statements are issued: Users and User select from users; Notes, Note
\* and, through Notes, the accessor UserResolver.Notes select from notes;
\* CreateNote inserts into notes once the transaction has begun and, after
\* the commit, reads the row back with Note
QueriedTables(op, tx) ==
    CASE op \in {"Users", "User"} -> <<"users">>
      [] op \in {"Notes", "Note", "UserNotes"} -> <<"notes">>
      [] op = "CreateNote" /\ tx = "rolledback" -> <<"notes">>
      [] op = "CreateNote" /\ tx = "committed" -> <<"notes", "notes">>
      [] OTHER -> <<>>

Call(op, userID, noteID, data, res, tx) ==
    [op |-> op, userID |-> userID, noteID |-> noteID, data |-> data, res |-> res, tx |-> tx,
     queries |-> IF variant = "main6" THEN QueriedTables(op, tx) ELSE <<>>]

\* the number of Notes in the store
NumNotes == IF variant = "main6" THEN Cardinality(dbNotes) ELSE Len(AllNotes(users))

\* whether userID resolves to a User of the store
UserExists(userID) ==
    IF variant = "main6"
    THEN \E u \in dbUsers : u.user_id = userID
    ELSE Matching(users, userID) # {}

\* the Notes userID owns, as a set
NotesOwned(userID) ==
    IF variant = "main6"
    THEN {ScanNote(r) : r \in {n \in dbNotes : n.user_id = userID}}
    ELSE UNION {{users[i].Notes[k] : k \in DOMAIN users[i].Notes} : i \in Matching(users, userID)}

\* the goroutines of two concurrent requests
Goroutines == {"g1", "g2"}

\* a goroutine that is not inside CreateNote
IdleWorker == [pc |-> "idle", userID |-> "", data |-> "", i |-> 0, loaded |-> <<>>]

\* main has started; it has neither launched the client goroutine nor
\* reached http.ListenAndServe
DemoStart == [main |-> "start", client |-> "unborn", got |-> [status |-> 0, body |-> <<>>]]

\* the state in which program v starts
InitOf(v) ==
    /\ variant = v
    /\ users = IF variant \in {"main4", "main5", "conc"} THEN MockUsers ELSE <<>>
    /\ dbUsers \in IF variant = "main6" THEN {SeedUsers, SeedUsers \cup {LateUser}} ELSE {{}}
    /\ dbNotes = IF variant = "main6" THEN SeedNotes ELSE {}
    /\ call = Call("none", "", "", "", Result(<<>>, TRUE, NoErr), "none")
    /\ created = <<>>
    /\ req = [n |-> 0, phase |-> "Idle", method |-> "", query |-> "", param |-> "", execs |-> 0]
    /\ resp = NoResponse
    /\ w = NewResponseWriter
    /\ logged = <<>>
    /\ workers = [g \in Goroutines |-> IdleWorker]
    /\ demo = DemoStart

Init == \E v \in {"main4", "main5", "main6"} : InitOf(v)

InitHTTP == InitOf("main7")

\* query users
Users ==
    /\ \E res \in IF variant = "main6" THEN Main6Users(dbUsers) ELSE {MemUsers(users)} :
          call' = Call("Users", "", "", "", res, "none")
    /\ UNCHANGED <<variant, users, dbUsers, dbNotes, created>>
    /\ UNCHANGED <<httpVars, procVars>>

\* query user(userID)
User(userID) ==
    /\ \E res \in CASE variant = "main6" -> Main6User(dbUsers, userID)
                    [] variant = "main5" -> {Main5User(users, userID)}
                    [] OTHER -> {Main4User(users, userID)} :
          call' = Call("User", userID, "", "", res, "none")
    /\ UNCHANGED <<variant, users, dbUsers, dbNotes, created>>
    /\ UNCHANGED <<httpVars, procVars>>

\* what notes(userID) may return
NotesOutcomes(userID) ==
    CASE variant = "main6" -> Main6Notes(dbNotes, userID)
      [] variant = "main5" -> {Main5Notes(users, userID)}
      [] OTHER -> {Main4Notes(users, userID)}

\* query notes(userID)
Notes(userID) ==
    /\ \E res \in NotesOutcomes(userID) :
          call' = Call("Notes", userID, "", "", res, "none")
    /\ UNCHANGED <<variant, users, dbUsers, dbNotes, created>>
    /\ UNCHANGED <<httpVars, procVars>>

\* what the notes accessor of the User with userID may return: UserResolver.Notes
\* in main-5 and main-6, the field Notes of the struct in main-4
UserNotesOutcomes(userID) ==
    IF variant = "main6"
    THEN UNION {Main6UserNotes(dbNotes, ScanUser(r)) : r \in {u \in dbUsers : u.user_id = userID}}
    ELSE {Main5UserNotes(users[i]) : i \in Matching(users, userID)}

\* the field notes of a User the executor got from users or user(userID)
UserNotes(userID) ==
    /\ UserExists(userID)
    /\ \E res \in UserNotesOutcomes(userID) :
          call' = Call("UserNotes", userID, "", "", res, "none")
    /\ UNCHANGED <<variant, users, dbUsers, dbNotes, created>>
    /\ UNCHANGED <<httpVars, procVars>>

\* query note(noteID)
Note(noteID) ==
    /\ \E res \in CASE variant = "main6" -> Main6Note(dbNotes, noteID)
                    [] variant = "main5" -> {MemNote(users, noteID, FALSE)}
                    [] OTHER -> {MemNote(users, noteID, TRUE)} :
          call' = Call("Note", "", noteID, "", res, "none")
    /\ UNCHANGED <<variant, users, dbUsers, dbNotes, created>>
    /\ UNCHANGED <<httpVars, procVars>>

\* what a createNote call that returned res adds to the record of created Notes
Created(userID, data, res) ==
    IF res.err = NoErr /\ res.val # <<>>
    THEN <<[userID |-> userID, noteID |-> res.val[1].NoteID, data |-> data]>>
    ELSE <<>>

\* mutation createNote(userID, note: {data}); main-4 has no mutation
CreateNote(userID, data) ==
    /\ variant # "main4"
    /\ NumNotes < (IF variant = "main6" THEN Cardinality(SeedNotes) ELSE Len(AllNotes(MockUsers))) + MaxCreate
    /\ IF variant = "main6"
       THEN \E o \in Main6CreateNote(dbUsers, dbNotes, userID, data) :
              /\ dbNotes' = o.notes
              /\ call' = Call("CreateNote", userID, "", data, o.res, o.tx)
              /\ created' = created \o Created(userID, data, o.res)
              /\ UNCHANGED users
       ELSE /\ users' = Main5CreateNoteStore(users, userID, data)
            /\ call' = Call("CreateNote", userID, "", data,
                            Main5CreateNoteResult(users, userID, data), "none")
            /\ created' = created \o Created(userID, data, Main5CreateNoteResult(users, userID, data))
            /\ UNCHANGED dbNotes
    /\ UNCHANGED <<variant, dbUsers>>
    /\ UNCHANGED <<httpVars, procVars>>

Next ==
    \/ Users
    \/ \E userID \in UserIDArgs : User(userID)
    \/ \E userID \in UserIDArgs : Notes(userID)
    \/ \E userID \in UserIDArgs : UserNotes(userID)
    \/ \E noteID \in NoteIDArgs : Note(noteID)
    \/ \E userID \in CreateUserIDArgs, data \in DataArgs : CreateNote(userID, data)

Spec == Init /\ [][Next]_vars

\* the endpoint of main-7 alone
SpecHTTP == InitHTTP /\ [][NextHTTP]_vars

\* the handler is a function body: once called it runs to its return
SpecHTTPFair ==
    /\ InitHTTP
    /\ [][NextHTTP]_vars
    /\ WF_vars(MethodCheck)
    /\ WF_vars(QueryExtract)
    /\ WF_vars(Execute)
    /\ WF_vars(WriteResponse)

\* The demo program of main-7: main starts the client goroutine, registers
\* the handler and listens; the client goroutine sends one GET and prints
\* the body. The server, once it listens, also serves whoever else connects.

InitDemo == InitOf("demo")

\* go func() { ... }()
DemoGo ==
    /\ demo.main = "start"
    /\ demo' = [demo EXCEPT !.main = "spawned", !.client = "ready"]
    /\ UNCHANGED <<storeVars, httpVars, workers>>

\* http.HandleFunc("/graphql", ...)
DemoHandleFunc ==
    /\ demo.main = "spawned"
    /\ demo' = [demo EXCEPT !.main = "registered"]
    /\ UNCHANGED <<storeVars, httpVars, workers>>

\* http.ListenAndServe(":8000", nil) binds the port and starts to accept
DemoListen ==
    /\ demo.main = "registered"
    /\ demo' = [demo EXCEPT !.main = "listening"]
    /\ UNCHANGED <<storeVars, httpVars, workers>>

\* resp, err := http.Get("http://localhost:8000/graphql?query=" + queryParam)
\* with the port bound the server takes the request; with the port not yet
\* bound the connection is refused, err is not nil and panic(err) ends the
\* program
DemoGet ==
    /\ demo.client = "ready"
    /\ IF demo.main = "listening"
       THEN /\ HandlerCalled("GET", "{ greet }")
            /\ demo' = [demo EXCEPT !.client = "waiting"]
       ELSE /\ demo' = [demo EXCEPT !.client = "panicked", !.main = "crashed"]
            /\ UNCHANGED <<storeVars, httpVars>>
    /\ UNCHANGED workers

\* bstr, err := ioutil.ReadAll(resp.Body); fmt.Println(string(bstr))
DemoRead ==
    /\ demo.client = "waiting"
    /\ req.phase = "ResponseWritten"
    /\ demo' = [demo EXCEPT !.client = "done", !.got = [status |-> w.status, body |-> w.body]]
    /\ UNCHANGED <<storeVars, httpVars, workers>>

\* another client's request reaches the listening server; the model serves
\* one request at a time and keeps one of the MaxRequests for the demo client
DemoOtherRequest(method, query) ==
    /\ demo.main = "listening"
    /\ demo.client # "waiting"
    /\ req.n < MaxRequests - (IF demo.client = "ready" THEN 1 ELSE 0)
    /\ HandlerCalled(method, query)
    /\ UNCHANGED procVars

NextDemo ==
    \/ DemoGo
    \/ DemoHandleFunc
    \/ DemoListen
    \/ DemoGet
    \/ DemoRead
    \/ \E method \in Methods, query \in Queries : DemoOtherRequest(method, query)
    \/ MethodCheck
    \/ QueryExtract
    \/ Execute
    \/ WriteResponse

\* the Go scheduler runs every runnable goroutine: main, the client and the
\* handler each take their next step
SpecDemo ==
    /\ InitDemo
    /\ [][NextDemo]_vars
    /\ WF_vars(DemoGo)
    /\ WF_vars(DemoHandleFunc)
    /\ WF_vars(DemoListen)
    /\ WF_vars(DemoGet)
    /\ WF_vars(DemoRead)
    /\ WF_vars(MethodCheck)
    /\ WF_vars(QueryExtract)
    /\ WF_vars(Execute)
    /\ WF_vars(WriteResponse)

----------------------------------------------------------------------------
(* main-5 and main-6 side by side: the same calls on equally seeded stores *)

\* table users holding the users of the mock data (the usernames are the
\* migration's: username_ZAYDEK fails the check on users.username)
PairSeedUsers ==
    {[user_id |-> MockUsers[i].UserID,
      username |-> IF i = 3 THEN "zaydek" ELSE MockUsers[i].Username] : i \in DOMAIN MockUsers}

\* table notes holding the notes of the mock data
PairSeedNotes ==
    UNION {{[user_id |-> MockUsers[i].UserID,
             note_id |-> MockUsers[i].Notes[k].NoteID,
             data |-> MockUsers[i].Notes[k].Data] : k \in DOMAIN MockUsers[i].Notes} :
           i \in DOMAIN MockUsers}

\* the outcome class of a result: error, null or value
Class(res) ==
    IF res.err # NoErr THEN "error" ELSE IF res.null THEN "null" ELSE "value"

\* what the caller sees of a result: its class, how many entities it carries
\* and their data (the UserIDs of users, the Data of notes: the NoteID of a
\* created Note is generated)
Seen(op, res) ==
    [class |-> Class(res),
     n |-> Len(res.val),
     data |-> IF op \in {"Users", "User"}
              THEN {res.val[i].UserID : i \in DOMAIN res.val}
              ELSE {res.val[i].Data : i \in DOMAIN res.val}]

\* the outcomes of main-6 in which the database itself works: no failed
\* connection, no collision of a generated note_id
Working(S) == {res \in S : res.err \notin {ErrStore, ErrUnique}}

PairCall(op, userID, noteID, data, mem, db) ==
    [op |-> op, userID |-> userID, noteID |-> noteID, data |-> data,
     mem |-> mem, db |-> db]

InitPair ==
    /\ variant = "pair"
    /\ users = MockUsers
    /\ dbUsers = PairSeedUsers
    /\ dbNotes = PairSeedNotes
    /\ call = PairCall("none", "", "", "", Seen("none", Result(<<>>, TRUE, NoErr)),
                       Seen("none", Result(<<>>, TRUE, NoErr)))
    /\ created = <<>>
    /\ req = [n |-> 0, phase |-> "Idle", method |-> "", query |-> "", param |-> "", execs |-> 0]
    /\ resp = NoResponse
    /\ w = NewResponseWriter
    /\ logged = <<>>
    /\ workers = [g \in Goroutines |-> IdleWorker]
    /\ demo = DemoStart

PairUsers ==
    /\ \E db \in {Seen("Users", res) : res \in Working(Main6Users(dbUsers))} :
          call' = PairCall("Users", "", "", "", Seen("Users", MemUsers(users)), db)
    /\ UNCHANGED <<variant, users, dbUsers, dbNotes, created>>
    /\ UNCHANGED <<httpVars, procVars>>

PairUser(userID) ==
    /\ \E db \in {Seen("User", res) : res \in Working(Main6User(dbUsers, userID))} :
          call' = PairCall("User", userID, "", "", Seen("User", Main5User(users, userID)), db)
    /\ UNCHANGED <<variant, users, dbUsers, dbNotes, created>>
    /\ UNCHANGED <<httpVars, procVars>>

PairNotes(userID) ==
    /\ \E db \in {Seen("Notes", res) : res \in Working(Main6Notes(dbNotes, userID))} :
          call' = PairCall("Notes", userID, "", "", Seen("Notes", Main5Notes(users, userID)), db)
    /\ UNCHANGED <<variant, users, dbUsers, dbNotes, created>>
    /\ UNCHANGED <<httpVars, procVars>>

PairNote(noteID) ==
    /\ \E db \in {Seen("Note", res) : res \in Working(Main6Note(dbNotes, noteID))} :
          call' = PairCall("Note", "", noteID, "", Seen("Note", MemNote(users, noteID, FALSE)), db)
    /\ UNCHANGED <<variant, users, dbUsers, dbNotes, created>>
    /\ UNCHANGED <<httpVars, procVars>>

PairCreateNote(userID, data) ==
    /\ Len(AllNotes(users)) < Len(AllNotes(MockUsers)) + MaxPairCreate
    /\ \E o \in Main6CreateNote(dbUsers, dbNotes, userID, data) :
          /\ o.res \in Working({o.res})
          /\ dbNotes' = o.notes
          /\ users' = Main5CreateNoteStore(users, userID, data)
          /\ call' = PairCall("CreateNote", userID, "", data,
                              Seen("CreateNote", Main5CreateNoteResult(users, userID, data)),
                              Seen("CreateNote", o.res))
          /\ created' = created \o Created(userID, data, o.res)
    /\ UNCHANGED <<variant, dbUsers>>
    /\ UNCHANGED <<httpVars, procVars>>

NextPair ==
    \/ PairUsers
    \/ \E userID \in {"u-001", "u-003", "u-999"} : PairUser(userID)
    \/ \E userID \in {"u-003", "u-999"} : PairNotes(userID)
    \/ \E noteID \in {"n-001", "n-009", "n-999"} : PairNote(noteID)
    \/ \E userID \in {"u-003", "u-999"}, data \in DataArgs : PairCreateNote(userID, data)

SpecPair == InitPair /\ [][NextPair]_vars

-----------------------------------------------------------------------------
(* CreateNote of main-5 called by the goroutines of concurrent requests.   *)
(* The method takes no lock: a goroutine reads user.Notes and stores the   *)
(* appended slice in two steps, and another goroutine may run in between. *)

\* the index of the user the loop of CreateNote matches, 0 when none does
MatchIndex(us, userID) ==
    IF Matching(us, userID) = {} THEN 0 ELSE First(Matching(us, userID))

InitConc == InitOf("conc")

\* a request calls CreateNote(args) on goroutine g
ConcCall(g, userID, data) ==
    /\ workers[g].pc = "idle"
    /\ Len(created) + Cardinality({h \in Goroutines : workers[h].pc # "idle"}) < MaxCreate
    /\ workers' = [workers EXCEPT ![g] =
                      [pc |-> "find", userID |-> userID, data |-> data, i |-> 0, loaded |-> <<>>]]
    /\ UNCHANGED <<storeVars, httpVars, demo>>

\* the loop finds the user and append reads user.Notes; without a match the
\* loop ends and the method returns &NoteResolver{nil}
ConcLoad(g) ==
    /\ workers[g].pc = "find"
    /\ LET i == MatchIndex(users, workers[g].userID)
       IN  workers' = [workers EXCEPT ![g] =
                          IF i = 0 THEN IdleWorker
                          ELSE [@ EXCEPT !.pc = "store", !.i = i, !.loaded = users[i].Notes]]
    /\ UNCHANGED <<storeVars, httpVars, demo>>

\* user.Notes = append(user.Notes, note) stores the slice it built from what
\* it read, and the method returns the Note
ConcStore(g) ==
    /\ workers[g].pc = "store"
    /\ LET note == [NoteID |-> Main5NewNoteID, Data |-> workers[g].data]
       IN  /\ users' = [users EXCEPT ![workers[g].i].Notes = workers[g].loaded \o <<note>>]
           /\ created' = created \o
                  <<[userID |-> workers[g].userID, noteID |-> note.NoteID, data |-> note.Data]>>
    /\ workers' = [workers EXCEPT ![g] = IdleWorker]
    /\ UNCHANGED <<variant, dbUsers, dbNotes, call, httpVars, demo>>

\* a concurrent request reads notes(userID)
ConcNotes(userID) ==
    /\ call' = Call("Notes", userID, "", "", Main5Notes(users, userID), "none")
    /\ UNCHANGED <<variant, users, dbUsers, dbNotes, created, httpVars, procVars>>

NextConc ==
    \/ \E g \in Goroutines, userID \in {"u-001", "u-003", "u-999"}, data \in DataArgs :
          ConcCall(g, userID, data)
    \/ \E g \in Goroutines : ConcLoad(g)
    \/ \E g \in Goroutines : ConcStore(g)
    \/ \E userID \in {"u-001", "u-999"} : ConcNotes(userID)

SpecConc == InitConc /\ [][NextConc]_vars

----------------------------------------------------------------------------
(* Properties of the resolvers *)

\* a call that reached the store: main-6's queries can fail for reasons that
\* have nothing to do with the rows (connection lost)
Answered == call.res.err # ErrStore

\* C1: for every userID absent from the store, the root query user(userID)
\* returns a null result and no error.
C1_UserMissIsNull ==
    (call.op = "User" /\ ~UserExists(call.userID) /\ Answered)
        => (call.res.null /\ call.res.val = <<>> /\ call.res.err = NoErr)

\* C2: no two Notes in the store share a noteID, after any sequence of
\* createNote calls.
C2_NoteIDsUnique ==
    IF variant = "main6"
    THEN \A a, b \in dbNotes : a.note_id = b.note_id => a = b
    ELSE LET all == AllNotes(users)
         IN  \A i, j \in DOMAIN all : all[i].NoteID = all[j].NoteID => i = j

\* C3: createNote with a userID that does not resolve to a User fails with an
\* error; it returns no success result.
C3_CreateNoteMissFails ==
    (call.op = "CreateNote" /\ ~UserExists(call.userID)) => call.res.err # NoErr

\* C4: createNote with a userID that does not resolve to a User leaves the
\* store unchanged: the same Users, the same Notes of every User, no orphan row.
C4_CreateNoteMissKeepsStore ==
    [][(call'.op = "CreateNote" /\ ~UserExists(call'.userID))
          => (users' = users /\ dbUsers' = dbUsers /\ dbNotes' = dbNotes)]_vars

\* a createNote for an absent user has returned, in main-5 and in main-6
C4_Witness ==
    /\ call.op = "CreateNote"
    /\ ~UserExists(call.userID)
    /\ (variant = "main5" \/ call.res.err = ErrForeignKey)
    /\ Len(created) > 0

\* the Notes createNote returned for userID, in call order
CreatedNotes(userID) ==
    LET cs == SelectSeq(created, LAMBDA c : c.userID = userID)
    IN  [i \in DOMAIN cs |-> [NoteID |-> cs[i].noteID, Data |-> cs[i].data]]

\* C5: once createNote(userID, data) has succeeded, every later notes(userID)
\* that returns includes a Note with that data and the noteID createNote
\* returned.
C5_CreatedNoteListed ==
    (call.op = "Notes" /\ call.res.err = NoErr)
        => \A k \in DOMAIN CreatedNotes(call.userID) :
              \E i \in DOMAIN call.res.val : call.res.val[i] = CreatedNotes(call.userID)[k]

\* notes(userID) has returned after two createNote calls for that user
C5_Witness ==
    /\ call.op = "Notes"
    /\ call.res.err = NoErr
    /\ Len(CreatedNotes(call.userID)) >= 2

\* C6, as claimed: notes(userID) returns an empty sequence and no error for a
\* user without notes, and signals an error for a userID that does not exist.
C6_NotesMissIsNotFound ==
    (call.op = "Notes" /\ Answered)
        => /\ (UserExists(call.userID) /\ NotesOwned(call.userID) = {})
                => (call.res.err = NoErr /\ call.res.val = <<>>)
           /\ ~UserExists(call.userID) => call.res.err # NoErr

\* C6, amended: notes(userID) does not tell the two misses apart. For a user
\* without notes and for a userID that does not exist alike it returns a nil
\* sequence and no error; the only error is a failed database query.
C6_NotesMissIsEmpty ==
    (call.op = "Notes" /\ NotesOwned(call.userID) = {})
        => \/ call.res.err = NoErr /\ call.res.val = <<>> /\ call.res.null
           \/ variant = "main6" /\ call.res.err = ErrStore

\* notes(userID) has returned for a userID that does not exist
C6_Witness ==
    /\ call.op = "Notes"
    /\ ~UserExists(call.userID)
    /\ call.res.err = NoErr

\* the Notes the mock data gives userID
MockNotes(userID) ==
    IF Matching(MockUsers, userID) = {} THEN <<>>
    ELSE MockUsers[First(Matching(MockUsers, userID))].Notes

\* C7: the Notes of a User are in insertion order: notes(userID) ends with the
\* Notes created for the user, in the order of their creation (the last created
\* is the last element), after the Notes that were there before, in their order.
C7_InsertionOrder ==
    (call.op = "Notes" /\ call.res.err = NoErr)
        => LET v == call.res.val
               cs == CreatedNotes(call.userID)
           IN  /\ Len(v) >= Len(cs)
               /\ SubSeq(v, Len(v) - Len(cs) + 1, Len(v)) = cs
               /\ variant # "main6" => v = MockNotes(call.userID) \o cs

\* C8: whenever main-6's createNote returns an error, its transaction has not
\* been committed and the notes table has no row the call added.
C8_CreateNoteFailureRolledBack ==
    [][(variant = "main6" /\ call'.op = "CreateNote" /\ call'.res.err # NoErr)
          => (call'.tx # "committed" /\ dbNotes' = dbNotes)]_vars

----------------------------------------------------------------------------
(* Properties of the HTTP endpoint *)

GenericBody == <<TextChunk("Server Error\n")>>

\* whether the body carries the error detail d, as such or inside JSON
Echoes(body, d) ==
    \E i \in DOMAIN body :
        \/ body[i].text = d
        \/ \E k \in DOMAIN body[i].errors : body[i].errors[k] = d

\* C9: a GET request whose execution returned errors is answered with status
\* 500 and a body of the generic status text alone; the error detail is in the
\* server log and nowhere in the body.
C9_ErrorsAnswered500Generic ==
    (req.phase = "ResponseWritten" /\ req.method = "GET" /\ resp.Errors # <<>>)
        => /\ w.status = StatusCodeServerError
           /\ w.body = GenericBody
           /\ \A k \in DOMAIN resp.Errors : ~Echoes(w.body, resp.Errors[k])
           /\ logged[Len(logged)] = [source |-> "Schema.Exec", detail |-> resp.Errors]

\* a GET request whose execution returned two errors has been answered
C9_Witness ==
    /\ req.phase = "ResponseWritten"
    /\ req.method = "GET"
    /\ Len(resp.Errors) = 2
    /\ w.headers = 1

\* a response that is partially successful: data together with errors
Partial == resp.Data # "" /\ resp.Errors # <<>>

\* C10, as claimed: a partially successful GET request is answered with status
\* 200 and a JSON body that contains both data and errors.
C10_PartialAnswered200 ==
    (req.phase = "ResponseWritten" /\ req.method = "GET" /\ Partial)
        => /\ w.status = StatusCodeOK
           /\ \E i \in DOMAIN w.body : w.body[i].json /\ w.body[i].hasData /\ w.body[i].hasErrors

\* C10, amended: a partially successful GET request is answered like any other
\* execution with errors: status 500, the generic body, neither data nor
\* errors. Status 200 with a JSON body is the answer to a response without
\* errors only, and that body carries no errors field.
C10_PartialAnswered500 ==
    (req.phase = "ResponseWritten" /\ req.method = "GET")
        => /\ Partial => (w.status = StatusCodeServerError /\ \A i \in DOMAIN w.body : ~w.body[i].json)
           /\ w.status = StatusCodeOK
                => (resp.Errors = <<>> /\ w.body = <<MarshalIndent(resp)>> /\ ~w.body[1].hasErrors)

\* a partially successful GET request has been answered
C10_Witness ==
    /\ req.phase = "ResponseWritten"
    /\ req.method = "GET"
    /\ Partial
    /\ w.body # <<>>

\* C11: every request whose method is not GET is answered with status 404,
\* whatever its query parameter; the executor is not invoked for it.
C11_NonGetAnswered404 ==
    (req.phase = "ResponseWritten" /\ req.method # "GET")
        => /\ w.status = StatusCodeNotFound
           /\ w.body = <<TextChunk("Not Found\n")>>
           /\ resp = NoResponse

\* a DELETE request that carries a valid query has been answered
C11_Witness ==
    /\ req.phase = "ResponseWritten"
    /\ req.method = "DELETE"
    /\ req.query = "{ greet }"
    /\ w.headers = 1

\* the steps a request takes through the handler
PhaseSteps ==
    {<<"Idle", "Received">>, <<"ResponseWritten", "Received">>,
     <<"Received", "MethodChecked">>, <<"Received", "ResponseWritten">>,
     <<"MethodChecked", "QueryExtracted">>, <<"QueryExtracted", "Executed">>,
     <<"Executed", "ResponseWritten">>}

\* C16: a request goes Received, MethodChecked, QueryExtracted, Executed,
\* ResponseWritten in this order, a rejected method going from Received
\* straight to ResponseWritten; the executor runs at most once per request and
\* only after the method check let the request through; and every request
\* ends with exactly one status written, 404, 500 or 200.
C16_RequestLifecycle ==
    /\ [][req'.phase # req.phase => <<req.phase, req'.phase>> \in PhaseSteps]_vars
    /\ [](req.execs = (IF req.phase \in {"Executed", "ResponseWritten"} /\ req.method = "GET"
                       THEN 1 ELSE 0))
    /\ [](w.headers = (IF req.phase = "ResponseWritten" THEN 1 ELSE 0))
    /\ [](req.phase = "ResponseWritten"
            => w.status \in {StatusCodeNotFound, StatusCodeServerError, StatusCodeOK})
    /\ \A n \in 1..MaxRequests :
          (req.n = n /\ req.phase = "Received") ~> (req.n = n /\ req.phase = "ResponseWritten")

\* the second request of a run went through the executor and was answered 200
C16_Witness ==
    /\ req.n = 2
    /\ req.phase = "ResponseWritten"
    /\ req.execs = 1
    /\ w.headers = 1
    /\ w.status = StatusCodeOK

----------------------------------------------------------------------------
(* Properties of the two backends side by side *)

\* C12: driven by the same calls from equally seeded stores, main-5 and main-6
\* return the same outcome class for every call and the same entity data.
C12_BackendsAgree == call.mem = call.db

\* C12 for the calls that find what they ask for: there the backends agree
C12_BackendsAgreeOnHits ==
    (call.mem.class = "value" /\ call.mem.n > 0) => call.mem = call.db

-----------------------------------------------------------------------------
(* Properties of the resolvers, continued *)

\* C14: for every userID present in the store, user(userID) returns a non-null
\* User whose UserID is the requested one and whose other fields are those of
\* the stored User.
C14_UserHitReturnsUser ==
    (call.op = "User" /\ UserExists(call.userID) /\ Answered)
        => /\ ~call.res.null
           /\ call.res.err = NoErr
           /\ Len(call.res.val) = 1
           /\ call.res.val[1].UserID = call.userID
           /\ IF variant = "main6"
              THEN \E r \in dbUsers : /\ r.user_id = call.userID
                                      /\ r.username = call.res.val[1].Username
              ELSE \E i \in DOMAIN users : users[i] = call.res.val[1]

\* user(userID) has returned the third mock user after a createNote changed
\* the store
C14_Witness ==
    /\ variant = "main5"
    /\ call.op = "User"
    /\ call.userID = "u-003"
    /\ ~call.res.null
    /\ Len(created) > 0

\* C15: every Note of the store belongs to exactly one User that exists in the
\* store, whatever createNote calls were made: in main-6 the user_id of every
\* row of notes is the user_id of one row of users; in main-5 every Note that
\* createNote returned went into the collection of one existing User and no
\* Note is held anywhere else.
C15_NoOrphanNote ==
    /\ \A c \in {created[k] : k \in DOMAIN created} : UserExists(c.userID)
    /\ IF variant = "main6"
       THEN \A n \in dbNotes : Cardinality({u \in dbUsers : u.user_id = n.user_id}) = 1
       ELSE /\ Len(AllNotes(users)) = Len(AllNotes(MockUsers)) + Len(created)
            /\ \A c \in {created[k] : k \in DOMAIN created} :
                  [NoteID |-> c.noteID, Data |-> c.data] \in NotesOwned(c.userID)

\* createNote has just been refused for a user that does not exist, in a
\* store that already took a created Note
C15_Witness ==
    /\ variant = "main6"
    /\ call.op = "CreateNote"
    /\ ~UserExists(call.userID)
    /\ call.res.err = ErrForeignKey
    /\ Len(created) > 0

\* C17: for every User of the store, the notes accessor of the User returns
\* exactly what the root notes(userID) returns for that User's userID, and
\* the other way round.
C17_AccessorMatchesRoot ==
    /\ call.op = "UserNotes" => call.res \in NotesOutcomes(call.userID)
    /\ (call.op = "Notes" /\ UserExists(call.userID))
          => call.res \in UserNotesOutcomes(call.userID)

\* the accessor has returned the notes of a User, the created one among them
C17_Witness ==
    /\ call.op = "UserNotes"
    /\ call.res.err = NoErr
    /\ Len(call.res.val) > 0
    /\ \E k \in DOMAIN created : created[k].userID = call.userID

\* how many of the statements of the last call name table notes
NotesLookups == Cardinality({k \in DOMAIN call.queries : call.queries[k] = "notes"})

-----------------------------------------------------------------------------
(* Properties of concurrent createNote calls *)

\* C13: createNote runs under mutual exclusion: once the interleaved calls have
\* returned, every Note they created is in its owner's collection (no lost
\* update), and no two calls are between reading and storing one collection.
C13_NoLostUpdate ==
    /\ (\A g \in Goroutines : workers[g].pc = "idle")
          => Len(AllNotes(users)) = Len(AllNotes(MockUsers)) + Len(created)
    /\ \A g, h \in Goroutines :
          (g # h /\ workers[g].pc = "store" /\ workers[h].pc = "store")
              => workers[g].i # workers[h].i

-----------------------------------------------------------------------------
(* Properties of the demo program *)

\* the client goroutine has printed the 200 response that carries greet
ClientServed ==
    /\ demo.client = "done"
    /\ demo.got.status = StatusCodeOK
    /\ demo.got.body = <<MarshalIndent(GreetResponse)>>

\* C19: in every interleaving of the client goroutine with main, the client
\* never sends its request before the server can accept it (its connection
\* is never refused), and its GET is eventually answered with the 200
\* response that carries the greet data.
C19_ClientEventuallyServed ==
    /\ [](demo.client # "panicked")
    /\ <>ClientServed

\* the runs in which the server listens before the client sends: there the
\* client is served
C19_ServedOnceAccepted == (demo.client = "waiting") ~> ClientServed


====
